---- MODULE Spec2Model ----
(***************************************************************************)
(* Red-black tree of src/Python/red_black_tree.py.                         *)
(*                                                                         *)
(* The heap of RBNode objects is a function from object identities to      *)
(* records.  Identity 0 is the sentinel self.NIL, identities 1, 2, ... are *)
(* the nodes allocated by insert, in allocation order, and None is         *)
(* Python's None.  insert is modelled statement by statement: pc is the    *)
(* position inside insert / _fix_insert / _left_rotate / _right_rotate and *)
(* loc holds the local variables of the running call.  The read-only       *)
(* operations run between completed inserts and leave their result in ret. *)
(***************************************************************************)
EXTENDS Integers, Sequences, FiniteSets, TLC

VARIABLES heap, root, pc, loc, inserted, fixlog, ret, arr, hs

vars == <<heap, root, pc, loc, inserted, fixlog, ret, arr, hs>>

(* The state of the red-black tree, and the state of heap_sort            *)
(* (src/Python/heap_sort.py): arr is the list object passed to heap_sort,  *)
(* hs the position and the local variables of the call.                    *)
rbvars == <<heap, root, pc, loc, inserted, fixlog, ret>>

hsvars == <<arr, hs>>

(* Bounds of the model.  The inserted sequences are every sequence of at  *)
(* most MaxInserts keys of 1..MaxKey, and every sequence of at most        *)
(* MaxDeep keys whose i-th key is i or MaxDeep + 1 - i (ascending runs,    *)
(* descending runs and their interleavings, long enough for the fixup to   *)
(* rotate above the leaves).                                               *)
MaxKey == 3
MaxInserts == 5
MaxDeep == 8

(* The lists sorted by heap_sort: every list of at most MaxLen values of   *)
(* 1..MaxVal.                                                              *)
MaxLen == 4
MaxVal == 3

(* The trees the validator is tried on without going through insert:      *)
(* every binary tree of at most MaxNodes nodes, in every colouring.        *)
MaxNodes == 4

Keys == 1..MaxKey

Short(seq) == \A i \in 1..Len(seq) : seq[i] \in Keys

Deep(seq) == \A i \in 1..Len(seq) : seq[i] \in {i, MaxDeep + 1 - i}

InsertKeys(seq) ==
  {k \in Keys : Len(seq) < MaxInserts /\ Short(seq)}
    \cup {k \in {Len(seq) + 1, MaxDeep - Len(seq)} : Len(seq) < MaxDeep /\ Deep(seq)}

(* The keys searched for: every key that can be inserted, one below and   *)
(* one above.                                                              *)
SearchKeys == 0..((IF MaxKey > MaxDeep THEN MaxKey ELSE MaxDeep) + 1)

(* Python's None, and the identity of the sentinel object self.NIL. *)
None == -1
NIL == 0

RED == "RED"
BLACK == "BLACK"

(* RBNode.__init__ *)
RBNode(data, color, parent, left, right) ==
  [data |-> data, color |-> color, parent |-> parent, left |-> left, right |-> right]

(* self.NIL = RBNode(color=Color.BLACK): every other field defaults to None. *)
NilNode == RBNode(None, BLACK, None, None, None)

(* Local variables of insert, _fix_insert and the rotations; all None      *)
(* while no insert is running.                                             *)
NoLoc ==
  [data |-> None, new_node |-> None, parent |-> None, current |-> None,
   node |-> None, uncle |-> None, side |-> "none",
   x |-> None, y |-> None, rot |-> "none", back |-> "none"]

(* obj.field = value *)
SetField(h, n, f, v) == [h EXCEPT ![n] = [@ EXCEPT ![f] = v]]

IsReal(h, n) == n \in DOMAIN h /\ n # NIL

(* An attribute access on None raises AttributeError: the insert is        *)
(* abandoned where it stands.                                              *)
Raise ==
  /\ pc' = "raised"
  /\ UNCHANGED <<heap, root, loc, inserted, fixlog, ret>>

----------------------------------------------------------------------------
(* RedBlackTree.__init__ *)
InitTree ==
  /\ heap = (NIL :> NilNode)
  /\ root = NIL
  /\ pc = "idle"
  /\ loc = NoLoc
  /\ inserted = <<>>
  /\ fixlog = <<>>
  /\ ret = [op |-> "init", arg |-> None, val |-> None]

(* No call of heap_sort is running. *)
NoSort == [pc |-> "none", input |-> <<>>, n |-> 0, i |-> 0,
           hn |-> 0, hi |-> 0, back |-> "none"]

Init ==
  /\ InitTree
  /\ arr = <<>>
  /\ hs = NoSort

----------------------------------------------------------------------------
(* insert, lines 42-45: allocate the RED node, start the descent at root. *)
NewId(h) == Cardinality(DOMAIN h)

insert_begin(k) ==
  /\ pc = "idle"
  /\ UNCHANGED hsvars
  /\ heap' = heap @@ (NewId(heap) :> RBNode(k, RED, NIL, NIL, NIL))
  /\ loc' = [NoLoc EXCEPT !.data = k, !.new_node = NewId(heap),
                          !.parent = NIL, !.current = root]
  /\ inserted' = Append(inserted, k)
  /\ fixlog' = <<>>
  /\ ret' = [op |-> "insert", arg |-> k, val |-> None]
  /\ pc' = "descend"
  /\ UNCHANGED root

insert_call == \E k \in InsertKeys(inserted) : insert_begin(k)

(* Variant of insert_descend: lines 50-53 are missing, current is not      *)
(* moved to a child.                                                       *)
insert_descend_stuck ==
  /\ pc = "descend"
  /\ UNCHANGED hsvars
  /\ IF loc.current = NIL
       THEN /\ pc' = "set_parent"
            /\ UNCHANGED <<heap, root, loc, inserted, fixlog, ret>>
     ELSE /\ loc' = [loc EXCEPT !.parent = loc.current]
          /\ UNCHANGED <<heap, root, pc, inserted, fixlog, ret>>

(* Variant of insert_descend: the comparison of line 50 is reversed.       *)
insert_descend_reversed ==
  /\ pc = "descend"
  /\ UNCHANGED hsvars
  /\ IF loc.current = NIL
       THEN /\ pc' = "set_parent"
            /\ UNCHANGED <<heap, root, loc, inserted, fixlog, ret>>
     ELSE /\ loc' = [loc EXCEPT !.parent = loc.current,
                                !.current = IF loc.data > heap[loc.current].data
                                              THEN heap[loc.current].left
                                              ELSE heap[loc.current].right]
          /\ UNCHANGED <<heap, root, pc, inserted, fixlog, ret>>

(* insert, lines 48-53: one test of the while condition and, when it      *)
(* holds, one execution of the loop body.                                  *)
insert_descend ==
  /\ pc = "descend"
  /\ UNCHANGED hsvars
  /\ IF loc.current = NIL
       THEN /\ pc' = "set_parent"
            /\ UNCHANGED <<heap, root, loc, inserted, fixlog, ret>>
     ELSE IF loc.current = None
       THEN Raise
     ELSE /\ loc' = [loc EXCEPT !.parent = loc.current,
                                !.current = IF loc.data < heap[loc.current].data
                                              THEN heap[loc.current].left
                                              ELSE heap[loc.current].right]
          /\ UNCHANGED <<heap, root, pc, inserted, fixlog, ret>>

(* Variant of insert_set_parent: line 55 is missing.                       *)
insert_set_parent_missing ==
  /\ pc = "set_parent"
  /\ UNCHANGED hsvars
  /\ pc' = "attach"
  /\ UNCHANGED <<heap, root, loc, inserted, fixlog, ret>>

(* insert, line 55 *)
insert_set_parent ==
  /\ pc = "set_parent"
  /\ UNCHANGED hsvars
  /\ heap' = SetField(heap, loc.new_node, "parent", loc.parent)
  /\ pc' = "attach"
  /\ UNCHANGED <<root, loc, inserted, fixlog, ret>>

(* Variant of insert_attach: the comparison of line 59 is dropped and the  *)
(* new node always becomes the left child.                                 *)
insert_attach_always_left ==
  /\ pc = "attach"
  /\ UNCHANGED hsvars
  /\ IF loc.parent = NIL
       THEN /\ root' = loc.new_node
            /\ UNCHANGED heap
     ELSE /\ heap' = SetField(heap, loc.parent, "left", loc.new_node)
          /\ UNCHANGED root
  /\ loc' = [loc EXCEPT !.node = loc.new_node]
  /\ pc' = "fix_while"
  /\ UNCHANGED <<inserted, fixlog, ret>>

(* insert, lines 57-65: link the new node below parent (or make it the    *)
(* root) and call _fix_insert(new_node).                                   *)
insert_attach ==
  /\ pc = "attach"
  /\ UNCHANGED hsvars
  /\ IF loc.parent = NIL
       THEN /\ root' = loc.new_node
            /\ UNCHANGED heap
     ELSE IF loc.data < heap[loc.parent].data
       THEN /\ heap' = SetField(heap, loc.parent, "left", loc.new_node)
            /\ UNCHANGED root
     ELSE /\ heap' = SetField(heap, loc.parent, "right", loc.new_node)
          /\ UNCHANGED root
  /\ loc' = [loc EXCEPT !.node = loc.new_node]
  /\ pc' = "fix_while"
  /\ UNCHANGED <<inserted, fixlog, ret>>

----------------------------------------------------------------------------
(* The two mirror branches of _fix_insert: side "L" is the branch taken    *)
(* when node.parent == node.parent.parent.left (lines 70-88), side "R" is  *)
(* the else branch (lines 89-104).  Far(s) is the field of the            *)
(* grandparent that holds the uncle.                                       *)
Far(s) == IF s = "L" THEN "right" ELSE "left"

(* _fix_insert, line 69: the test of the while condition                  *)
(* node.parent.color == Color.RED.                                         *)
fix_while ==
  /\ pc = "fix_while"
  /\ UNCHANGED hsvars
  /\ IF loc.node = None \/ heap[loc.node].parent = None
       THEN Raise
     ELSE /\ pc' = IF heap[heap[loc.node].parent].color = RED
                     THEN "fix_side" ELSE "fix_root"
          /\ UNCHANGED <<heap, root, loc, inserted, fixlog, ret>>

(* _fix_insert, lines 70-71 and 90: choose the branch and read the uncle. *)
(* When the grandparent is the sentinel its left is None, the comparison   *)
(* is False and the else branch reads None as the uncle.                   *)
fix_side ==
  /\ pc = "fix_side"
  /\ UNCHANGED hsvars
  /\ LET p == heap[loc.node].parent
         g == heap[p].parent
     IN IF g = None
          THEN Raise
        ELSE /\ loc' = IF p = heap[g].left
                         THEN [loc EXCEPT !.side = "L", !.uncle = heap[g].right]
                         ELSE [loc EXCEPT !.side = "R", !.uncle = heap[g].left]
             /\ pc' = "fix_uncle"
             /\ UNCHANGED <<heap, root, inserted, fixlog, ret>>

(* _fix_insert, lines 73 and 92: uncle.color == Color.RED *)
fix_uncle ==
  /\ pc = "fix_uncle"
  /\ UNCHANGED hsvars
  /\ IF loc.uncle = None
       THEN Raise
     ELSE /\ pc' = IF heap[loc.uncle].color = RED THEN "c1_parent" ELSE "c2"
          /\ UNCHANGED <<heap, root, loc, inserted, fixlog, ret>>

(* Variant of c1_parent: the parent is not recoloured.                     *)
c1_parent_not_recoloured ==
  /\ pc = "c1_parent"
  /\ UNCHANGED hsvars
  /\ pc' = "c1_uncle"
  /\ UNCHANGED <<heap, root, loc, inserted, fixlog, ret>>

(* Case 1, lines 75 and 93: node.parent.color = Color.BLACK *)
c1_parent ==
  /\ pc = "c1_parent"
  /\ UNCHANGED hsvars
  /\ heap' = SetField(heap, heap[loc.node].parent, "color", BLACK)
  /\ pc' = "c1_uncle"
  /\ UNCHANGED <<root, loc, inserted, fixlog, ret>>

(* Variant of c1_uncle: the uncle is not recoloured.                       *)
c1_uncle_not_recoloured ==
  /\ pc = "c1_uncle"
  /\ UNCHANGED hsvars
  /\ pc' = "c1_grand"
  /\ UNCHANGED <<heap, root, loc, inserted, fixlog, ret>>

(* Case 1, lines 76 and 94: uncle.color = Color.BLACK *)
c1_uncle ==
  /\ pc = "c1_uncle"
  /\ UNCHANGED hsvars
  /\ heap' = SetField(heap, loc.uncle, "color", BLACK)
  /\ pc' = "c1_grand"
  /\ UNCHANGED <<root, loc, inserted, fixlog, ret>>

(* Variant of c1_grand: line 78 / 96, node = node.parent.parent, is        *)
(* missing.                                                                *)
c1_grand_node_not_moved ==
  /\ pc = "c1_grand"
  /\ UNCHANGED hsvars
  /\ LET g == heap[heap[loc.node].parent].parent
     IN IF g = None
          THEN Raise
        ELSE /\ heap' = SetField(heap, g, "color", RED)
             /\ loc' = [loc EXCEPT !.uncle = None, !.side = "none"]
             /\ fixlog' = Append(fixlog, "A")
             /\ pc' = "fix_while"
             /\ UNCHANGED <<root, inserted, ret>>

(* Case 1, lines 77-78 and 95-96: node.parent.parent.color = Color.RED,   *)
(* node = node.parent.parent.                                              *)
c1_grand ==
  /\ pc = "c1_grand"
  /\ UNCHANGED hsvars
  /\ LET g == heap[heap[loc.node].parent].parent
     IN IF g = None
          THEN Raise
        ELSE /\ heap' = SetField(heap, g, "color", RED)
             /\ loc' = [loc EXCEPT !.node = g, !.uncle = None, !.side = "none"]
             /\ fixlog' = Append(fixlog, "A")
             /\ pc' = "fix_while"
             /\ UNCHANGED <<root, inserted, ret>>

(* Case 2, lines 80-83 and 98-100: when node is the inner child, move to  *)
(* the parent and rotate it outwards; otherwise fall through to case 3.    *)
c2 ==
  /\ pc = "c2"
  /\ UNCHANGED hsvars
  /\ LET p == heap[loc.node].parent
     IN IF p = None
          THEN Raise
        ELSE IF loc.node = heap[p][Far(loc.side)]
          THEN /\ loc' = [loc EXCEPT !.node = p, !.x = p,
                                     !.rot = IF loc.side = "L" THEN "left" ELSE "right",
                                     !.back = "c3_parent"]
               /\ fixlog' = Append(fixlog, "B")
               /\ pc' = "rot_1"
               /\ UNCHANGED <<heap, root, inserted, ret>>
        ELSE /\ pc' = "c3_parent"
             /\ UNCHANGED <<heap, root, loc, inserted, fixlog, ret>>

(* Variant of c3_parent: the parent is not recoloured.                     *)
c3_parent_not_recoloured ==
  /\ pc = "c3_parent"
  /\ UNCHANGED hsvars
  /\ pc' = "c3_grand"
  /\ UNCHANGED <<heap, root, loc, inserted, fixlog, ret>>

(* Case 3, lines 86 and 102: node.parent.color = Color.BLACK *)
c3_parent ==
  /\ pc = "c3_parent"
  /\ UNCHANGED hsvars
  /\ LET p == heap[loc.node].parent
     IN IF p = None
          THEN Raise
        ELSE /\ heap' = SetField(heap, p, "color", BLACK)
             /\ pc' = "c3_grand"
             /\ UNCHANGED <<root, loc, inserted, fixlog, ret>>

(* Variant of c3_grand: the grandparent is not recoloured.                 *)
c3_grand_not_recoloured ==
  /\ pc = "c3_grand"
  /\ UNCHANGED hsvars
  /\ pc' = "c3_rotate"
  /\ UNCHANGED <<heap, root, loc, inserted, fixlog, ret>>

(* Case 3, lines 87 and 103: node.parent.parent.color = Color.RED *)
c3_grand ==
  /\ pc = "c3_grand"
  /\ UNCHANGED hsvars
  /\ LET g == heap[heap[loc.node].parent].parent
     IN IF g = None
          THEN Raise
        ELSE /\ heap' = SetField(heap, g, "color", RED)
             /\ pc' = "c3_rotate"
             /\ UNCHANGED <<root, loc, inserted, fixlog, ret>>

(* Variant of c3_rotate: the grandparent is rotated towards the node.      *)
c3_rotate_wrong_direction ==
  /\ pc = "c3_rotate"
  /\ UNCHANGED hsvars
  /\ loc' = [loc EXCEPT !.x = heap[heap[loc.node].parent].parent,
                        !.rot = IF loc.side = "L" THEN "left" ELSE "right",
                        !.back = "fix_while"]
  /\ fixlog' = Append(fixlog, "C")
  /\ pc' = "rot_1"
  /\ UNCHANGED <<heap, root, inserted, ret>>

(* Case 3, lines 88 and 104: rotate the grandparent away from the node.   *)
c3_rotate ==
  /\ pc = "c3_rotate"
  /\ UNCHANGED hsvars
  /\ loc' = [loc EXCEPT !.x = heap[heap[loc.node].parent].parent,
                        !.rot = IF loc.side = "L" THEN "right" ELSE "left",
                        !.back = "fix_while"]
  /\ fixlog' = Append(fixlog, "C")
  /\ pc' = "rot_1"
  /\ UNCHANGED <<heap, root, inserted, ret>>

(* Variant of fix_root: line 106 is missing.                               *)
fix_root_not_blackened ==
  /\ pc = "fix_root"
  /\ UNCHANGED hsvars
  /\ fixlog' = Append(fixlog, "root_kept")
  /\ loc' = NoLoc
  /\ pc' = "idle"
  /\ UNCHANGED <<heap, root, inserted, ret>>

(* _fix_insert, line 106: self.root.color = Color.BLACK; insert returns.  *)
fix_root ==
  /\ pc = "fix_root"
  /\ UNCHANGED hsvars
  /\ IF root = None
       THEN Raise
     ELSE /\ heap' = SetField(heap, root, "color", BLACK)
          /\ fixlog' = Append(fixlog, IF heap[root].color = RED
                                        THEN "root_recoloured" ELSE "root_kept")
          /\ loc' = NoLoc
          /\ pc' = "idle"
          /\ UNCHANGED <<root, inserted, ret>>

----------------------------------------------------------------------------
(* Rotations.  A rotation works on the tree m = [heap, root, raised];      *)
(* raised records an AttributeError.  _left_rotate and _right_rotate are   *)
(* the same six statements with left and right exchanged: a is the field   *)
(* the promoted child y is read from ("right" in _left_rotate, line 110,   *)
(* "left" in _right_rotate, line 130) and b is the other field.            *)
Tree(h, r) == [heap |-> h, root |-> r, raised |-> FALSE]

Raised(m) == [m EXCEPT !.raised = TRUE]

(* lines 110 / 130: y = x.right *)
rot_y(m, x, a) == IF x = None THEN None ELSE m.heap[x][a]

(* lines 111 / 131: x.right = y.left *)
rot_s1(m, x, y, a, b) ==
  IF m.raised THEN m
  ELSE IF x = None \/ y = None THEN Raised(m)
  ELSE [m EXCEPT !.heap = SetField(@, x, a, m.heap[y][b])]

(* Variant of rot_s2: the test y.left != self.NIL is missing.              *)
rot_s2_unguarded(m, x, y, a, b) ==
  IF m.raised THEN m
  ELSE IF m.heap[y][b] = None THEN Raised(m)
  ELSE [m EXCEPT !.heap = SetField(@, m.heap[y][b], "parent", x)]

(* lines 113-114 / 133-134: if y.left != self.NIL: y.left.parent = x *)
rot_s2(m, x, y, a, b) ==
  IF m.raised THEN m
  ELSE IF m.heap[y][b] # NIL
    THEN IF m.heap[y][b] = None THEN Raised(m)
         ELSE [m EXCEPT !.heap = SetField(@, m.heap[y][b], "parent", x)]
  ELSE m

(* Variant of rot_s3: line 116 / 136 is missing.                           *)
rot_s3_missing(m, x, y, a, b) == m

(* lines 116 / 136: y.parent = x.parent *)
rot_s3(m, x, y, a, b) ==
  IF m.raised THEN m
  ELSE [m EXCEPT !.heap = SetField(@, y, "parent", m.heap[x].parent)]

(* lines 118-123 / 138-143: hang y where x hung *)
rot_s4(m, x, y, a, b) ==
  IF m.raised THEN m
  ELSE IF m.heap[x].parent = NIL
    THEN [m EXCEPT !.root = y]
  ELSE IF m.heap[x].parent = None
    THEN Raised(m)
  ELSE IF x = m.heap[m.heap[x].parent][b]
    THEN [m EXCEPT !.heap = SetField(@, m.heap[x].parent, b, y)]
  ELSE [m EXCEPT !.heap = SetField(@, m.heap[x].parent, a, y)]

(* Variant of rot_s5: line 125 / 145 is missing.                           *)
rot_s5_missing(m, x, y, a, b) == m

(* lines 125 / 145: y.left = x *)
rot_s5(m, x, y, a, b) ==
  IF m.raised THEN m
  ELSE [m EXCEPT !.heap = SetField(@, y, b, x)]

(* Variant of rot_s6: line 126 / 146 is missing.                           *)
rot_s6_missing(m, x, y, a, b) == m

(* lines 126 / 146: x.parent = y *)
rot_s6(m, x, y, a, b) ==
  IF m.raised THEN m
  ELSE [m EXCEPT !.heap = SetField(@, x, "parent", y)]

rotate(m, x, a, b) ==
  LET y == rot_y(m, x, a)
  IN rot_s6(rot_s5(rot_s4(rot_s3(rot_s2(rot_s1(m, x, y, a, b),
       x, y, a, b), x, y, a, b), x, y, a, b), x, y, a, b), x, y, a, b)

left_rotate(m, x) == rotate(m, x, "right", "left")

right_rotate(m, x) == rotate(m, x, "left", "right")

(* The fields a and b of the rotation that is running. *)
RotA == IF loc.rot = "left" THEN "right" ELSE "left"
RotB == IF loc.rot = "left" THEN "left" ELSE "right"

(* One statement of the running rotation: the tree becomes m, or the      *)
(* statement raises.                                                       *)
RotStep(m, next) ==
  IF m.raised
    THEN Raise
  ELSE /\ heap' = m.heap
       /\ root' = m.root
       /\ pc' = next
       /\ UNCHANGED <<inserted, fixlog, ret>>

rot_1 ==
  /\ pc = "rot_1"
  /\ UNCHANGED hsvars
  /\ RotStep(rot_s1(Tree(heap, root), loc.x, rot_y(Tree(heap, root), loc.x, RotA),
                    RotA, RotB), "rot_2")
  /\ loc' = IF pc' = "raised" THEN loc
            ELSE [loc EXCEPT !.y = rot_y(Tree(heap, root), loc.x, RotA)]

rot_2 ==
  /\ pc = "rot_2"
  /\ UNCHANGED hsvars
  /\ RotStep(rot_s2(Tree(heap, root), loc.x, loc.y, RotA, RotB), "rot_3")
  /\ UNCHANGED loc

rot_3 ==
  /\ pc = "rot_3"
  /\ UNCHANGED hsvars
  /\ RotStep(rot_s3(Tree(heap, root), loc.x, loc.y, RotA, RotB), "rot_4")
  /\ UNCHANGED loc

rot_4 ==
  /\ pc = "rot_4"
  /\ UNCHANGED hsvars
  /\ RotStep(rot_s4(Tree(heap, root), loc.x, loc.y, RotA, RotB), "rot_5")
  /\ UNCHANGED loc

rot_5 ==
  /\ pc = "rot_5"
  /\ UNCHANGED hsvars
  /\ RotStep(rot_s5(Tree(heap, root), loc.x, loc.y, RotA, RotB), "rot_6")
  /\ UNCHANGED loc

(* The last statement of the rotation; the rotation returns to its caller. *)
rot_6 ==
  /\ pc = "rot_6"
  /\ UNCHANGED hsvars
  /\ RotStep(rot_s6(Tree(heap, root), loc.x, loc.y, RotA, RotB), loc.back)
  /\ loc' = IF pc' = "raised" THEN loc
            ELSE [loc EXCEPT !.x = None, !.y = None, !.rot = "none", !.back = "none"]

----------------------------------------------------------------------------
(* The read-only operations, as functions of the tree (heap h, root r).    *)

(* The recursive walks of lines 152-216 follow left and right from a node  *)
(* until the sentinel.  A walk that meets None raises AttributeError and   *)
(* a walk longer than the number of objects is on a cycle and exhausts the *)
(* recursion limit; WalkOk says that neither happens below node n.         *)
RECURSIVE WalkOk(_, _, _)
WalkOk(h, n, fuel) ==
  IF n = NIL THEN TRUE
  ELSE IF n = None \/ fuel = 0 THEN FALSE
  ELSE WalkOk(h, h[n].left, fuel - 1) /\ WalkOk(h, h[n].right, fuel - 1)

ReadsOk(h, r) == WalkOk(h, r, Cardinality(DOMAIN h))

(* Variant of _search_helper: the two descents of lines 156-158 are        *)
(* exchanged.                                                              *)
RECURSIVE _search_helper_swapped(_, _, _)
_search_helper_swapped(h, node, data) ==
  IF node = NIL \/ data = h[node].data
    THEN node
  ELSE IF data < h[node].data
    THEN _search_helper_swapped(h, h[node].right, data)
  ELSE _search_helper_swapped(h, h[node].left, data)

(* _search_helper, lines 152-158 *)
RECURSIVE _search_helper(_, _, _)
_search_helper(h, node, data) ==
  IF node = NIL \/ data = h[node].data
    THEN node
  ELSE IF data < h[node].data
    THEN _search_helper(h, h[node].left, data)
  ELSE _search_helper(h, h[node].right, data)

(* search, lines 148-150 *)
search(h, r, data) == _search_helper(h, r, data)

(* _inorder_helper, lines 166-170: result is the list being appended to. *)
RECURSIVE _inorder_helper(_, _, _)
_inorder_helper(h, node, result) ==
  IF node # NIL
    THEN _inorder_helper(h, h[node].right,
           Append(_inorder_helper(h, h[node].left, result),
                  <<h[node].data, h[node].color>>))
  ELSE result

(* inorder_traversal, lines 160-164 *)
inorder_traversal(h, r) == _inorder_helper(h, r, <<>>)

Max(a, b) == IF a >= b THEN a ELSE b

(* Variant of get_black_height: the sentinel counts as one BLACK node.     *)
RECURSIVE get_black_height_counting_nil(_, _, _)
get_black_height_counting_nil(h, r, node) ==
  IF node = None THEN get_black_height_counting_nil(h, r, r)
  ELSE IF node = NIL THEN 1
  ELSE Max(get_black_height_counting_nil(h, r, h[node].left),
           get_black_height_counting_nil(h, r, h[node].right))
       + (IF h[node].color = BLACK THEN 1 ELSE 0)

(* get_black_height, lines 172-186; node = None stands for the root. *)
RECURSIVE get_black_height(_, _, _)
get_black_height(h, r, node) ==
  IF node = None THEN get_black_height(h, r, r)
  ELSE IF node = NIL THEN 0
  ELSE Max(get_black_height(h, r, h[node].left),
           get_black_height(h, r, h[node].right))
       + (IF h[node].color = BLACK THEN 1 ELSE 0)

(* Variant of validate_helper: the test of lines 195-197 is missing.       *)
RECURSIVE validate_helper_no_red_test(_, _, _, _)
validate_helper_no_red_test(h, node, black_count, expected_black_count) ==
  IF node = NIL
    THEN black_count = expected_black_count
  ELSE LET count == IF h[node].color = BLACK THEN black_count + 1 ELSE black_count
       IN /\ validate_helper_no_red_test(h, h[node].left, count, expected_black_count)
          /\ validate_helper_no_red_test(h, h[node].right, count, expected_black_count)

(* validate_helper, lines 190-205 *)
RECURSIVE validate_helper(_, _, _, _)
validate_helper(h, node, black_count, expected_black_count) ==
  IF node = NIL
    THEN black_count = expected_black_count
  ELSE IF h[node].color = RED
          /\ (h[h[node].left].color = RED \/ h[h[node].right].color = RED)
    THEN FALSE
  ELSE LET count == IF h[node].color = BLACK THEN black_count + 1 ELSE black_count
       IN /\ validate_helper(h, h[node].left, count, expected_black_count)
          /\ validate_helper(h, h[node].right, count, expected_black_count)

(* validate_rb_properties, lines 188-216 *)
validate_rb_properties(h, r) ==
  IF r = NIL THEN TRUE
  ELSE IF h[r].color # BLACK THEN FALSE
  ELSE validate_helper(h, r, 0, get_black_height(h, r, None))

(* The calls of the read-only operations.  Each leaves its result in ret. *)
Reply(op, arg, val) ==
  /\ ret' = [op |-> op, arg |-> arg, val |-> val]
  /\ UNCHANGED <<heap, root, pc, loc, inserted, fixlog>>

(* Variant of search_call: a hit is moved into self.root.                  *)
search_call_moves_root ==
  /\ pc = "idle"
  /\ UNCHANGED hsvars
  /\ \E k \in SearchKeys :
       IF ReadsOk(heap, root)
         THEN /\ ret' = [op |-> "search", arg |-> k, val |-> search(heap, root, k)]
              /\ root' = IF search(heap, root, k) = NIL THEN root
                         ELSE search(heap, root, k)
              /\ UNCHANGED <<heap, pc, loc, inserted, fixlog>>
       ELSE Raise

search_call ==
  /\ pc = "idle"
  /\ UNCHANGED hsvars
  /\ \E k \in SearchKeys :
       IF ReadsOk(heap, root) THEN Reply("search", k, search(heap, root, k)) ELSE Raise

inorder_call ==
  /\ pc = "idle"
  /\ UNCHANGED hsvars
  /\ IF ReadsOk(heap, root)
       THEN Reply("inorder_traversal", None, inorder_traversal(heap, root))
     ELSE Raise

black_height_call ==
  /\ pc = "idle"
  /\ UNCHANGED hsvars
  /\ IF ReadsOk(heap, root)
       THEN Reply("get_black_height", None, get_black_height(heap, root, None))
     ELSE Raise

validate_call ==
  /\ pc = "idle"
  /\ UNCHANGED hsvars
  /\ IF ReadsOk(heap, root)
       THEN Reply("validate_rb_properties", None, validate_rb_properties(heap, root))
     ELSE Raise

----------------------------------------------------------------------------
(* heap_sort of src/Python/heap_sort.py.  Python lists are indexed from 0, *)
(* sequences from 1: At(a, k) is a[k].                                     *)
At(a, k) == a[k + 1]

(* arr[i], arr[j] = arr[j], arr[i] *)
Swap(a, i, j) == [a EXCEPT ![i + 1] = a[j + 1], ![j + 1] = a[i + 1]]

(* Variant of Largest: the right child is not looked at.                   *)
LargestLeftOnly(a, n, i) ==
  IF 2 * i + 1 < n /\ At(a, i) < At(a, 2 * i + 1) THEN 2 * i + 1 ELSE i

(* heapify, lines 16-26: the index of the largest of arr[i] and its        *)
(* children inside the heap of size n.                                     *)
Largest(a, n, i) ==
  LET left == 2 * i + 1
      right == 2 * i + 2
      l1 == IF left < n /\ At(a, i) < At(a, left) THEN left ELSE i
  IN IF right < n /\ At(a, l1) < At(a, right) THEN right ELSE l1

(* The lists heap_sort is called with. *)
Lists == UNION {[1..n -> 1..MaxVal] : n \in 0..MaxLen}

(* heap_sort(arr) has just been called. *)
InitSort ==
  /\ InitTree
  /\ arr \in Lists
  /\ hs = [NoSort EXCEPT !.pc = "call", !.input = arr]

(* heap_sort, lines 40 and 44: n = len(arr), and the first value of        *)
(* range(n // 2 - 1, -1, -1).                                              *)
heap_sort_start ==
  /\ hs.pc = "call"
  /\ hs' = [hs EXCEPT !.pc = "build", !.n = Len(arr), !.i = (Len(arr) \div 2) - 1]
  /\ UNCHANGED arr
  /\ UNCHANGED rbvars

(* heap_sort, lines 44-45: the next heapify(arr, n, i) of the build loop,  *)
(* or, the range exhausted, the first value of range(n - 1, 0, -1).        *)
heap_sort_build ==
  /\ hs.pc = "build"
  /\ hs' = IF hs.i >= 0
             THEN [hs EXCEPT !.pc = "heapify", !.hn = hs.n, !.hi = hs.i,
                             !.back = "build", !.i = hs.i - 1]
           ELSE [hs EXCEPT !.pc = "extract", !.i = hs.n - 1]
  /\ UNCHANGED arr
  /\ UNCHANGED rbvars

(* heapify, lines 16-33: one call of heapify(arr, hn, hi).  When the       *)
(* largest is not arr[hi] the two are swapped and heapify calls itself on  *)
(* largest as its last statement; otherwise the call, and with it every    *)
(* call waiting for it, returns.                                           *)
heapify ==
  /\ hs.pc = "heapify"
  /\ LET largest == Largest(arr, hs.hn, hs.hi)
     IN IF largest # hs.hi
          THEN /\ arr' = Swap(arr, hs.hi, largest)
               /\ hs' = [hs EXCEPT !.hi = largest]
        ELSE /\ hs' = [hs EXCEPT !.pc = hs.back, !.hn = 0, !.hi = 0, !.back = "none"]
             /\ UNCHANGED arr
  /\ UNCHANGED rbvars

(* heap_sort, lines 48-52: move the maximum behind the heap and heapify    *)
(* the rest, or, the range exhausted, return arr.                          *)
heap_sort_extract ==
  /\ hs.pc = "extract"
  /\ IF hs.i >= 1
       THEN /\ arr' = Swap(arr, hs.i, 0)
            /\ hs' = [hs EXCEPT !.pc = "heapify", !.hn = hs.i, !.hi = 0,
                                !.back = "extract", !.i = hs.i - 1]
     ELSE /\ hs' = [hs EXCEPT !.pc = "done"]
          /\ UNCHANGED arr
  /\ UNCHANGED rbvars

NextSort == heap_sort_start \/ heap_sort_build \/ heapify \/ heap_sort_extract

(* A call of heap_sort runs to its end: nothing suspends it.               *)
SpecSort == InitSort /\ [][NextSort]_vars /\ WF_vars(NextSort)

----------------------------------------------------------------------------
(* Trees built node by node, without insert and without fixup: a node of   *)
(* any colour is hung at any sentinel position.  Every node holds its own  *)
(* identity as its key.                                                    *)
Hung(t, p, f, c) ==
  [t EXCEPT !.heap = SetField(@, p, f, NewId(t.heap))
                       @@ (NewId(t.heap) :> RBNode(NewId(t.heap), c, p, NIL, NIL))]

OneMore(t) ==
  IF t.root = NIL
    THEN {[t EXCEPT !.heap = @ @@ (NewId(t.heap) :> RBNode(NewId(t.heap), c, NIL, NIL, NIL)),
                    !.root = NewId(t.heap)] : c \in {RED, BLACK}}
  ELSE {Hung(t, q[1], q[2], q[3]) :
          q \in {q \in (DOMAIN t.heap \ {NIL}) \X {"left", "right"} \X {RED, BLACK} :
                   t.heap[q[1]][q[2]] = NIL}}

RECURSIVE AnyTrees(_)
AnyTrees(k) ==
  IF k = 0 THEN {Tree(NIL :> NilNode, NIL)}
  ELSE LET smaller == AnyTrees(k - 1)
       IN smaller \cup UNION {OneMore(t) : t \in smaller}

(* The validator and get_black_height are called on any such tree.         *)
InitAny ==
  /\ \E t \in AnyTrees(MaxNodes) : heap = t.heap /\ root = t.root
  /\ pc = "idle"
  /\ loc = NoLoc
  /\ inserted = <<>>
  /\ fixlog = <<>>
  /\ ret = [op |-> "init", arg |-> None, val |-> None]
  /\ arr = <<>>
  /\ hs = NoSort

NextAny == validate_call \/ black_height_call

SpecAny == InitAny /\ [][NextAny]_vars

----------------------------------------------------------------------------
(* The rotations called on their own, on any node of any tree whose child  *)
(* on the side that is promoted is a real node.                            *)
Rotated(name, x, m) ==
  /\ heap' = m.heap
  /\ root' = m.root
  /\ pc' = IF m.raised THEN "raised" ELSE pc
  /\ ret' = [op |-> name, arg |-> x, val |-> None]
  /\ UNCHANGED <<loc, inserted, fixlog>>
  /\ UNCHANGED hsvars

left_rotate_call ==
  /\ pc = "idle"
  /\ \E x \in DOMAIN heap \ {NIL} :
       /\ IsReal(heap, heap[x].right)
       /\ Rotated("_left_rotate", x, left_rotate(Tree(heap, root), x))

right_rotate_call ==
  /\ pc = "idle"
  /\ \E x \in DOMAIN heap \ {NIL} :
       /\ IsReal(heap, heap[x].left)
       /\ Rotated("_right_rotate", x, right_rotate(Tree(heap, root), x))

NextRot == left_rotate_call \/ right_rotate_call

SpecRot == InitAny /\ [][NextRot]_vars

----------------------------------------------------------------------------
Step ==
  \/ insert_descend \/ insert_set_parent \/ insert_attach
  \/ fix_while \/ fix_side \/ fix_uncle
  \/ c1_parent \/ c1_uncle \/ c1_grand
  \/ c2 \/ c3_parent \/ c3_grand \/ c3_rotate
  \/ rot_1 \/ rot_2 \/ rot_3 \/ rot_4 \/ rot_5 \/ rot_6
  \/ fix_root

Read == search_call \/ inorder_call \/ black_height_call \/ validate_call

Next == insert_call \/ Step \/ Read

Spec == Init /\ [][Next]_vars

Range(seq) == {seq[i] : i \in DOMAIN seq}

(* A reader that runs validate_rb_properties between two statements of a  *)
(* running insert (lines 188-216 read root, left, right and color only).   *)
(* ret records what it returns and the keys it can reach from root.        *)
validate_between_writes ==
  /\ pc \notin {"idle", "raised"}
  /\ ret' = IF ReadsOk(heap, root)
              THEN [op |-> "validate_between_writes",
                    arg |-> {t[1] : t \in Range(inorder_traversal(heap, root))},
                    val |-> validate_rb_properties(heap, root)]
              ELSE [op |-> "validate_between_writes", arg |-> {}, val |-> None]
  /\ UNCHANGED <<heap, root, pc, loc, inserted, fixlog>>
  /\ UNCHANGED hsvars

NextObserved == Next \/ validate_between_writes

SpecObserved == Init /\ [][NextObserved]_vars

(* The interpreter is single-threaded and synchronous: a call of insert    *)
(* that has started keeps executing its next statement.                    *)
SpecLive == Spec /\ WF_vars(Step)

----------------------------------------------------------------------------
(* Vocabulary of the properties.                                           *)

(* No call is running: the tree is as the last completed insert left it.   *)
Idle == pc = "idle"

(* The real nodes below (and including) n. *)
RECURSIVE Below(_, _)
Below(h, n) ==
  IF n = NIL THEN {} ELSE {n} \cup Below(h, h[n].left) \cup Below(h, h[n].right)

(* The numbers of BLACK real nodes on the paths from n down to a sentinel  *)
(* position, one number per path.                                          *)
RECURSIVE PathBlacks(_, _)
PathBlacks(h, n) ==
  IF n = NIL THEN {0}
  ELSE {c + (IF h[n].color = BLACK THEN 1 ELSE 0) :
          c \in PathBlacks(h, h[n].left) \cup PathBlacks(h, h[n].right)}

(* How many times k occurs in seq. *)
Count(seq, k) == Cardinality({i \in DOMAIN seq : seq[i] = k})

(* The keys of a traversal result. *)
KeysOf(t) == [i \in DOMAIN t |-> t[i][1]]

NonDecreasing(seq) == \A i \in 1..(Len(seq) - 1) : seq[i] <= seq[i + 1]

HasDuplicate(seq) == \E i, j \in DOMAIN seq : i < j /\ seq[i] = seq[j]

Inserted == {inserted[i] : i \in DOMAIN inserted}

----------------------------------------------------------------------------
(* C1: validate_rb_properties() returns True on the empty tree and after   *)
(* every insert of every sequence of inserts, duplicates included.         *)
C1_ValidAfterEveryInsert ==
  Idle => /\ ReadsOk(heap, root)
          /\ validate_rb_properties(heap, root)
          /\ (ret.op = "validate_rb_properties" => ret.val = TRUE)

C1_Witness ==
  /\ Idle
  /\ Len(inserted) >= 4
  /\ HasDuplicate(inserted)
  /\ ret.op = "validate_rb_properties"
  /\ ret.val = TRUE

(* C2: after n inserts inorder_traversal() returns n entries, in           *)
(* non-decreasing key order, holding each key as often as it was inserted. *)
C2_SortedTraversal ==
  Idle => /\ ReadsOk(heap, root)
          /\ LET t == inorder_traversal(heap, root)
             IN /\ Len(t) = Len(inserted)
                /\ NonDecreasing(KeysOf(t))
                /\ \A k \in SearchKeys : Count(KeysOf(t), k) = Count(inserted, k)

C2_Witness ==
  /\ Idle
  /\ Len(inserted) >= 4
  /\ HasDuplicate(inserted)
  /\ ~NonDecreasing(inserted)
  /\ ret.op = "inorder_traversal"
  /\ Len(ret.val) = Len(inserted)

(* C3: search(k) returns a real node holding k for every inserted key k    *)
(* and the sentinel NIL for every key never inserted (so for every key on  *)
(* the empty tree).                                                        *)
C3_SearchCorrect ==
  Idle => /\ ReadsOk(heap, root)
          /\ \A k \in SearchKeys :
               LET found == search(heap, root, k)
               IN IF k \in Inserted
                    THEN IsReal(heap, found) /\ heap[found].data = k
                  ELSE found = NIL

C3_Witness ==
  /\ Idle
  /\ Len(inserted) >= 4
  /\ HasDuplicate(inserted)
  /\ ret.op = "search"
  /\ ret.arg \in Inserted
  /\ ret.val # NIL
  /\ ret.val # root
  /\ \E k \in SearchKeys : k \notin Inserted /\ search(heap, root, k) = NIL

(* C4: after every completed insert all paths from the root to a sentinel  *)
(* position hold the same number of BLACK real nodes, the number that      *)
(* get_black_height() returns for the root.                                *)
C4_UniformBlackHeight ==
  Idle => /\ ReadsOk(heap, root)
          /\ PathBlacks(heap, root) = {get_black_height(heap, root, None)}

C4_Witness ==
  /\ Idle
  /\ Len(inserted) >= 6
  /\ get_black_height(heap, root, None) = 2
  /\ PathBlacks(heap, root) = {2}
  /\ \E n \in Below(heap, root) : heap[n].color = RED /\ heap[n].left # NIL

(* C5: after every completed insert no RED node has a RED child.           *)
C5_NoRedRed ==
  Idle => /\ ReadsOk(heap, root)
          /\ \A n \in Below(heap, root) :
               heap[n].color = RED =>
                 /\ heap[n].left = NIL \/ heap[heap[n].left].color = BLACK
                 /\ heap[n].right = NIL \/ heap[heap[n].right].color = BLACK

C5_Witness ==
  /\ Idle
  /\ \E n \in Below(heap, root) :
       /\ heap[n].color = RED
       /\ heap[n].left # NIL
       /\ heap[n].right # NIL
       /\ heap[heap[n].left].color = BLACK
       /\ heap[heap[n].right].color = BLACK

(* C6: after any non-empty sequence of inserts the root is a real node     *)
(* coloured BLACK, also when the fixup ended with a Case 1 recolouring     *)
(* that left the root RED before line 106.                                 *)
C6_RootBlack ==
  (Idle /\ Len(inserted) >= 1) => (IsReal(heap, root) /\ heap[root].color = BLACK)

C6_Witness ==
  /\ Idle
  /\ Len(fixlog) >= 2
  /\ fixlog[Len(fixlog) - 1] = "A"
  /\ fixlog[Len(fixlog)] = "root_recoloured"
  /\ heap[root].color = BLACK

(* The parent of n, None when n is no object. *)
ParentOf(h, n) == IF n \in DOMAIN h THEN h[n].parent ELSE None

(* The positions inside the body of the while loop of _fix_insert. *)
InLoopBody ==
  pc \in {"fix_side", "fix_uncle", "c1_parent", "c1_uncle", "c1_grand",
          "c2", "c3_parent", "c3_grand", "c3_rotate"}

(* C7: insert never raises; while the body of the fixup loop runs the      *)
(* grandparent of the current node is a real node, and every rotation      *)
(* called by the fixup finds a real node as the child it promotes.         *)
C7_InsertNeverFails ==
  /\ pc # "raised"
  /\ InLoopBody => IsReal(heap, ParentOf(heap, ParentOf(heap, loc.node)))
  /\ pc = "rot_1" => (loc.x \in DOMAIN heap /\ IsReal(heap, heap[loc.x][RotA]))

C7_Witness ==
  /\ Idle
  /\ Len(inserted) >= 3
  /\ \E i \in 1..(Len(inserted) - 1) : inserted[i] = inserted[Len(inserted)]
  /\ \E i \in DOMAIN fixlog : fixlog[i] = "B"
  /\ \E i \in DOMAIN fixlog : fixlog[i] = "C"

(* C8: after n >= 1 inserts get_black_height() is at most                  *)
(* ceil(log2(n + 1)), that is 2^(black height - 1) < n + 1, written here   *)
(* as 2^(black height) < 2 * (n + 1).                                      *)
C8_BlackHeightBound ==
  (Idle /\ Len(inserted) >= 1) =>
    /\ ReadsOk(heap, root)
    /\ 2 ^ get_black_height(heap, root, None) < 2 * (Len(inserted) + 1)

C8_Witness ==
  /\ Idle
  /\ inserted = <<1, 2, 3, 4, 5, 6, 7>>
  /\ ret.op = "get_black_height"
  /\ ret.val = get_black_height(heap, root, None)
  /\ ret.val <= 3

(* C9: search, inorder_traversal, get_black_height and                     *)
(* validate_rb_properties change neither root nor any field of any node,   *)
(* and the same call made twice in a row returns the same result.          *)
C9_ReadOnly ==
  [][(pc = "idle" /\ pc' = "idle") =>
       /\ heap' = heap
       /\ root' = root
       /\ (ret'.op = ret.op /\ ret'.arg = ret.arg) => ret'.val = ret.val]_vars

C9_Witness ==
  /\ Idle
  /\ Len(inserted) >= 4
  /\ ret.op = "search"
  /\ IsReal(heap, ret.val)
  /\ ret.val # root
  /\ heap[ret.val].data = ret.arg

(* C10: the sentinel is never written: in every state, inside an insert    *)
(* too, NIL is BLACK, holds no key and has the parent, left and right it   *)
(* was constructed with.                                                   *)
C10_SentinelNeverMutated == heap[NIL] = NilNode

C10_Witness ==
  /\ pc = "rot_3"
  /\ heap[loc.y][RotB] = NIL
  /\ heap[NIL] = NilNode

(* C11: heap_sort(arr) terminates for every list, and the list it        *)
(* returns is arr itself, in non-decreasing order and holding every value  *)
(* as often as the list passed in (so the empty list and the lists of one  *)
(* element are returned as they were).                                     *)
SortedPermutation ==
  /\ Len(arr) = Len(hs.input)
  /\ NonDecreasing(arr)
  /\ \A v \in 1..MaxVal : Count(arr, v) = Count(hs.input, v)
  /\ Len(hs.input) <= 1 => arr = hs.input

C11_HeapSortSorts ==
  /\ <>(hs.pc = "done")
  /\ [](hs.pc = "done" => SortedPermutation)

C11_Witness ==
  /\ hs.pc = "done"
  /\ Len(hs.input) >= 4
  /\ HasDuplicate(hs.input)
  /\ ~NonDecreasing(hs.input)
  /\ arr # hs.input
  /\ NonDecreasing(arr)

(* What the validator is meant to decide, stated without it.               *)
NoRedRed(h, r) ==
  \A n \in Below(h, r) :
    h[n].color = RED =>
      /\ h[n].left = NIL \/ h[h[n].left].color = BLACK
      /\ h[n].right = NIL \/ h[h[n].right].color = BLACK

RedBlack(h, r) ==
  \/ r = NIL
  \/ /\ h[r].color = BLACK
     /\ NoRedRed(h, r)
     /\ Cardinality(PathBlacks(h, r)) = 1

(* C12: on every binary tree of RED and BLACK nodes, built by insert or    *)
(* not, validate_rb_properties() returns True exactly when the tree is     *)
(* empty or has a BLACK root, no RED node with a RED child and the same    *)
(* number of BLACK nodes on every path from the root to the sentinel.      *)
C12_ValidatorExact ==
  /\ validate_rb_properties(heap, root) = RedBlack(heap, root)
  /\ ret.op = "validate_rb_properties" => ret.val = RedBlack(heap, root)

C12_Witness ==
  /\ ret.op = "validate_rb_properties"
  /\ ret.val = FALSE
  /\ heap[root].color = BLACK
  /\ NoRedRed(heap, root)
  /\ Cardinality(PathBlacks(heap, root)) > 1
  /\ get_black_height(heap, root, None) \in PathBlacks(heap, root)

(* The edges from a RED node to a RED child. *)
RedRedEdges(h, r) ==
  {e \in Below(h, r) \X Below(h, r) :
     /\ h[e[1]].color = RED
     /\ h[e[2]].color = RED
     /\ e[2] \in {h[e[1]].left, h[e[1]].right}}

(* C13: whenever the while condition of _fix_insert is evaluated, all      *)
(* paths from the root to the sentinel hold the same number of BLACK       *)
(* nodes, and the colours are violated at most once: by the edge from the  *)
(* parent of the current node to the current node, or by a RED root.       *)
C13_FixupLoopInvariant ==
  pc = "fix_while" =>
    /\ ReadsOk(heap, root)
    /\ Cardinality(PathBlacks(heap, root)) = 1
    /\ RedRedEdges(heap, root) \subseteq {<<heap[loc.node].parent, loc.node>>}
    /\ heap[root].color = RED => RedRedEdges(heap, root) = {}

C13_Witness ==
  /\ pc = "fix_while"
  /\ fixlog # <<>>
  /\ fixlog[Len(fixlog)] = "A"
  /\ RedRedEdges(heap, root) = {<<heap[loc.node].parent, loc.node>>}
  /\ heap[loc.node].left # NIL

(* Parent back-references agree with the child links: the parent of the   *)
(* root is the sentinel and every real child names its parent.             *)
LinksAgree(h, r) ==
  /\ r # NIL => h[r].parent = NIL
  /\ \A n \in Below(h, r) :
       /\ h[n].left # NIL => h[h[n].left].parent = n
       /\ h[n].right # NIL => h[h[n].right].parent = n

(* The nodes whose links a rotation at x may change: x, the child y it     *)
(* promotes, the child y hands over to x and the parent of x.              *)
Touched(h, x, a, b) == {x, h[x][a], h[h[x][a]][b], h[x].parent} \ {NIL}

RotationFrame(x, a, b) ==
  /\ inorder_traversal(heap', root') = inorder_traversal(heap, root)
  /\ DOMAIN heap' = DOMAIN heap
  /\ \A n \in DOMAIN heap :
       /\ heap'[n].color = heap[n].color
       /\ heap'[n].data = heap[n].data
       /\ n \notin Touched(heap, x, a, b) => heap'[n] = heap[n]
  /\ heap[x].parent # NIL => root' = root
  /\ LinksAgree(heap, root) => LinksAgree(heap', root')

(* C14: a rotation at x whose promoted child is real keeps the in-order    *)
(* sequence of keys, changes no colour and no key, changes links of x, of  *)
(* the promoted child, of the child handed over and of the old parent of   *)
(* x only (root only when x was the root), and leaves every parent         *)
(* back-reference in agreement with the child links.                       *)
C14_RotationFrame ==
  [][/\ ret'.op = "_left_rotate" => RotationFrame(ret'.arg, "right", "left")
     /\ ret'.op = "_right_rotate" => RotationFrame(ret'.arg, "left", "right")]_vars

C14_Witness ==
  /\ ret.op = "_left_rotate"
  /\ pc = "idle"
  /\ heap[ret.arg].right # NIL
  /\ heap[heap[ret.arg].parent].parent # NIL
  /\ LinksAgree(heap, root)

(* C15: the rotations undo each other.  _left_rotate(x) followed by        *)
(* _right_rotate(y), y the node that took the place of x, gives back the   *)
(* root and every field of every node; likewise _right_rotate(x) followed  *)
(* by _left_rotate(y).                                                     *)
C15_RotationsInverse ==
  pc = "idle" =>
    \A x \in DOMAIN heap \ {NIL} :
      /\ IsReal(heap, heap[x].right) =>
           right_rotate(left_rotate(Tree(heap, root), x), heap[x].right)
             = Tree(heap, root)
      /\ IsReal(heap, heap[x].left) =>
           left_rotate(right_rotate(Tree(heap, root), x), heap[x].left)
             = Tree(heap, root)

(* A left rotation at x has run, x kept a real right child and has a real  *)
(* grandparent, and the right rotation at the new parent of x leads to a   *)
(* tree other than this one.                                               *)
C15_Witness ==
  /\ ret.op = "_left_rotate"
  /\ pc = "idle"
  /\ heap[ret.arg].right # NIL
  /\ heap[heap[ret.arg].parent].parent # NIL
  /\ IsReal(heap, heap[heap[ret.arg].parent].left)
  /\ right_rotate(Tree(heap, root), heap[ret.arg].parent) # Tree(heap, root)
  /\ left_rotate(right_rotate(Tree(heap, root), heap[ret.arg].parent), ret.arg)
       = Tree(heap, root)

(* The number of nodes on the parent chain from n up to the root. *)
RECURSIVE Depth(_, _)
Depth(h, n) == IF n = NIL THEN 0 ELSE 1 + Depth(h, h[n].parent)

(* C16: every insert terminates.  A call that has started reaches its      *)
(* return; each iteration of the descent moves current to a child of the   *)
(* node it was at; each uncle-RED iteration moves node two levels up; and  *)
(* when the rotation of an uncle-BLACK iteration returns the parent of     *)
(* node is BLACK, so the while test that follows ends the loop.            *)
C16_InsertTerminates ==
  /\ (pc # "idle") ~> (pc = "idle")
  /\ [][/\ (pc = "descend" /\ pc' = "descend") =>
             /\ loc.current # NIL
             /\ loc'.current \in {heap[loc.current].left, heap[loc.current].right}
        /\ (pc = "c1_grand" /\ pc' = "fix_while") =>
             Depth(heap', loc'.node) = Depth(heap, loc.node) - 2
        /\ (pc = "rot_6" /\ pc' = "fix_while") =>
             heap'[heap'[loc'.node].parent].color = BLACK]_vars

(* An insert has returned after a descent of at least two levels, an       *)
(* uncle-RED iteration and an uncle-BLACK iteration.                       *)
C16_Witness ==
  /\ pc = "idle"
  /\ Len(fixlog) = 3 /\ fixlog[1] = "A" /\ fixlog[2] = "C"
  /\ Len(inserted) >= 6

(* The links and the colours of all nodes. *)
Links(h) == [n \in DOMAIN h |-> <<h[n].parent, h[n].left, h[n].right>>]

Colours(h) == [n \in DOMAIN h |-> h[n].color]

RotPcs == {"rot_1", "rot_2", "rot_3", "rot_4", "rot_5", "rot_6"}

(* The number of rotations the running insert has called so far. *)
Rotations == Cardinality({i \in 1..Len(fixlog) : fixlog[i] \in {"B", "C"}})

LastLogged == IF fixlog = <<>> THEN "none" ELSE fixlog[Len(fixlog)]

(* The running insert is past its first rotation. *)
FirstRotationReturned ==
  /\ pc \notin {"idle", "raised"}
  /\ Rotations >= 1
  /\ ~(pc \in RotPcs /\ Rotations = 1)

(* The running insert is past the rotation of case 3. *)
LastRotationReturned ==
  /\ pc \notin {"idle", "raised"} \cup RotPcs
  /\ LastLogged = "C"

(* C17 as stated: in one insert nothing is recoloured or rotated after the *)
(* first rotation has returned, except the final blackening of the root.   *)
C17_NothingAfterFirstRotation ==
  [][(FirstRotationReturned /\ pc # "fix_root") => (heap' = heap /\ root' = root)]_vars

(* C17: ordering of the fixup steps of one insert.  An uncle-RED iteration *)
(* changes no link.  The iterations run in the order: uncle-RED            *)
(* iterations, then at most one uncle-BLACK iteration (the optional        *)
(* rotation of case 2, the two recolourings of case 3, the rotation of     *)
(* case 3), then the blackening of the root; so at most two rotations run. *)
(* When the rotation of case 3 has returned the parent of node is BLACK,   *)
(* and nothing is recoloured or rotated from then on except the root.      *)
C17_FixupOrdering ==
  /\ [](/\ Rotations <= 2
        /\ \A i \in 1..Len(fixlog) :
             /\ fixlog[i] = "A" => \A j \in 1..(i - 1) : fixlog[j] = "A"
             /\ fixlog[i] = "B" => (i = Len(fixlog) \/ fixlog[i + 1] = "C")
             /\ fixlog[i] = "C" =>
                  \A j \in (i + 1)..Len(fixlog) :
                    fixlog[j] \in {"root_kept", "root_recoloured"}
        /\ (pc = "fix_while" /\ LastLogged = "C") =>
             heap[heap[loc.node].parent].color = BLACK)
  /\ [][/\ pc \in {"fix_while", "fix_side", "fix_uncle", "c1_parent", "c1_uncle", "c1_grand"} =>
             (Links(heap') = Links(heap) /\ root' = root /\ pc' \notin RotPcs)
        /\ (LastLogged = "B" /\ pc \notin RotPcs /\ pc # "raised") =>
             /\ pc \in {"c3_parent", "c3_grand", "c3_rotate"}
             /\ Links(heap') = Links(heap) /\ root' = root
        /\ (LastRotationReturned /\ pc # "fix_root") => (heap' = heap /\ root' = root)
        /\ pc = "fix_root" =>
             /\ Links(heap') = Links(heap) /\ root' = root
             /\ \A n \in DOMAIN heap \ {root} : heap'[n].color = heap[n].color]_vars

(* An insert has returned after both rotations, the first of them at a     *)
(* node that is not the root.                                              *)
C17_Witness ==
  /\ pc = "idle"
  /\ fixlog = <<"B", "C", "root_kept">>
  /\ Len(inserted) >= 5

(* The keys of the inserts that have returned, while one is running. *)
InsertedBefore == {inserted[i] : i \in 1..(Len(inserted) - 1)}

(* C18 as stated: validate_rb_properties run between any two statements of *)
(* an insert returns True and reaches the keys the tree held before the    *)
(* insert or the keys it holds after it.                                   *)
C18_NeverInconsistent ==
  ret.op = "validate_between_writes" =>
    /\ ret.val = TRUE
    /\ ret.arg \in {InsertedBefore, Inserted}

(* C18: the tree is consistent between completed inserts only.  When no    *)
(* insert is running, and while a running insert has not yet linked its    *)
(* node, the validator returns True and every key inserted is reachable.   *)
(* Between the later statements of an insert the validator completes       *)
(* (what is reachable from root is a finite tree ending in the sentinel)   *)
(* and reaches inserted keys only, but it may return False and may miss    *)
(* keys.                                                                   *)
C18_ConsistentBetweenInserts ==
  /\ pc # "raised" => ReadsOk(heap, root)
  /\ ret.op = "validate_between_writes" =>
       /\ ret.val \in BOOLEAN
       /\ ret.arg \subseteq Inserted
  /\ Idle =>
       /\ validate_rb_properties(heap, root)
       /\ Below(heap, root) = DOMAIN heap \ {NIL}
  /\ pc \in {"descend", "set_parent", "attach"} =>
       /\ validate_rb_properties(heap, root)
       /\ Below(heap, root) = DOMAIN heap \ {NIL, loc.new_node}

(* A validator that ran in the middle of a rotation returned False and     *)
(* missed a key that was in the tree before the insert.                    *)
C18_Witness ==
  /\ ret.op = "validate_between_writes"
  /\ pc \in RotPcs
  /\ ret.val = FALSE
  /\ ret.arg # InsertedBefore
  /\ ret.arg # Inserted
  /\ Len(inserted) >= 4

(* C19: after any sequence of inserts, at every real node n the keys of    *)
(* the left subtree of n are less than or equal to n.data and the keys of  *)
(* the right subtree are greater than or equal to n.data.                  *)
C19_NonStrictOrder ==
  Idle =>
    \A n \in Below(heap, root) :
      /\ \A m \in Below(heap, heap[n].left) : heap[m].data <= heap[n].data
      /\ \A m \in Below(heap, heap[n].right) : heap[m].data >= heap[n].data

(* The strict form fails: a rotation has put a key equal to n.data into    *)
(* the left subtree of n.                                                  *)
C19_Witness ==
  /\ Idle
  /\ \E i \in DOMAIN fixlog : fixlog[i] = "C"
  /\ \E n \in Below(heap, root) :
       /\ \E m \in Below(heap, heap[n].left) : heap[m].data = heap[n].data
       /\ \E m \in Below(heap, heap[n].right) : heap[m].data > heap[n].data

(* C20: after every completed insert the parent of the root is the        *)
(* sentinel, every child of a reachable node is the sentinel or a real     *)
(* node whose parent is that node, every real node is reached from root    *)
(* and on one path only (the traversal lists as many entries as there are  *)
(* reachable nodes), and there are as many reachable nodes as inserts.     *)
C20_LinkConsistency ==
  (Idle /\ inserted # <<>>) =>
    /\ IsReal(heap, root)
    /\ heap[root].parent = NIL
    /\ \A n \in Below(heap, root) :
         \A c \in {heap[n].left, heap[n].right} :
           c = NIL \/ (IsReal(heap, c) /\ heap[c].parent = n)
    /\ Below(heap, root) = DOMAIN heap \ {NIL}
    /\ Len(inorder_traversal(heap, root)) = Cardinality(Below(heap, root))
    /\ Cardinality(Below(heap, root)) = Len(inserted)

(* An insert whose fixup rotated twice has returned in a tree of at least  *)
(* six nodes in which a node has a real grandparent.                       *)
C20_Witness ==
  /\ Idle
  /\ Len(inserted) >= 6
  /\ Rotations = 2
  /\ \E n \in Below(heap, root) : IsReal(heap, heap[heap[n].parent].parent)

====
